---- MODULE Spec2Model ----
(***************************************************************************)
(* Model of the queue bot: the SQLite store of database.py (tables users,  *)
(* queues, queue_members), the per-queue lock table and the request        *)
(* handlers of main.py, and the expiry sweeper.                            *)
(*                                                                         *)
(* The specifications share the variables:                                 *)
(*   StoreSpec      the Database class driven through its public methods,  *)
(*                  one call at a time per queue id (the way every handler *)
(*                  of main.py calls the mutators: inside `async with      *)
(*                  lock`), from a store in which every user is registered;*)
(*   TxnSpec        a removal of a member row statement by statement, on   *)
(*                  its connection, next to what other connections read;   *)
(*   Spec           the whole program from an empty store: handlers        *)
(*                  stepping from await to await, the lock table, the      *)
(*                  sweeper task, the clock;                               *)
(*   PopulatedSpec  the program started on a database file that holds a    *)
(*                  queue and member rows;                                 *)
(*   LiveSpec       Spec with the sweeper's passes scheduled fairly;       *)
(*   CreateSpec     the two ways of creating a queue, the command and the  *)
(*                  menu dialogue, with names of every kind;               *)
(*   FairSpec       the handlers that take a queue's lock, every started   *)
(*                  update task being resumed by the event loop.           *)
(***************************************************************************)
EXTENDS Integers, Sequences, FiniteSets, TLC

\* ------------------------------------------------------------------ bounds
\* Cap of the AUTOINCREMENT counter: how many queues are ever created.
MaxQueues == 1
\* Cap of the clock.
MaxTime == 1

\* '+1 day' of the expires_at column default, the clock counting days.
TTL == 1

\* Telegram user ids (those of the scenarios: 10 creates, 20 and 30 join).
Users == {10, 20, 30}
\* The users whose updates the program model follows: the creator and one other.
Senders == {10, 20}
\* Queue ids a request can name: those of the queues ever created and one more,
\* which no queue has.
QueueIds == 1..(MaxQueues + 1)
\* The update tasks in flight at the same time.
Handlers == {1, 2}

None == 0

\* The longest queue name the menu dialogue accepts.
MaxNameLen == 100

VARIABLES
    users,        \* table users: the set of ids (PRIMARY KEY)
    queues,       \* table queues: rows [id, name, creator_id, created_at, expires_at]
    seq,          \* sqlite_sequence of queues (AUTOINCREMENT)
    members,      \* table queue_members: queue_id -> its rows [user_id, position],
                  \* in rowid (insertion) order
    now,          \* datetime('now')
    queue_locks,  \* main.py queue_locks: queue id -> lock object (None: no entry)
    lock_owner,   \* lock object -> the handler holding it (None: free)
    waitq,        \* handlers suspended in lock.acquire(), in arrival order
    hs,           \* the update tasks: handler -> its frame
    txn,          \* the connection of a removal that has statements not committed yet
    cleanup_task, \* where the task of cleanup_task() is
    user_states   \* main.py user_states: the users whose entry says "waiting_queue_name"

dbvars == <<users, queues, seq, members, now>>
progvars == <<queue_locks, lock_owner, waitq, hs, cleanup_task, user_states>>
vars == <<users, queues, seq, members, now, queue_locks, lock_owner, waitq, hs, txn, cleanup_task,
          user_states>>

\* ------------------------------------------------------------ small helpers

\* A text of n letters.
RECURSIVE Letters(_)
Letters(n) == IF n = 0 THEN <<>> ELSE Append(Letters(n - 1), "a")

\* str.strip(): the text without its leading and trailing whitespace.
RECURSIVE strip(_)
strip(text) ==
    IF text = <<>> THEN <<>>
    ELSE IF Head(text) = " " THEN strip(Tail(text))
    ELSE IF text[Len(text)] = " " THEN strip(SubSeq(text, 1, Len(text) - 1))
    ELSE text
Max(S) == CHOOSE x \in S : \A y \in S : y <= x
Min(S) == CHOOSE x \in S : \A y \in S : x <= y

\* The sequence s without the elements at the indices in drop.
RECURSIVE SeqWithout(_, _)
SeqWithout(s, drop) ==
    IF s = <<>> THEN <<>>
    ELSE LET n == Len(s)
             front == SeqWithout(SubSeq(s, 1, n - 1), drop) IN
         IF n \in drop THEN front ELSE Append(front, s[n])

\* Indices of the rows of queue_members with queue_id = q.
MembersOf(m, q) == DOMAIN m[q]
\* Indices of the rows with queue_id = q and user_id = u.
MemberRows(m, q, u) == {i \in DOMAIN m[q] : m[q][i].user_id = u}
\* The positions stored for queue q.
Positions(m, q) == {m[q][i].position : i \in DOMAIN m[q]}

\* ----------------------------------------------------------------- models
\* The fields the Queue dataclass declares.
QueueFields == {"id", "name", "creator_id", "created_at"}

\* Queue(**kwargs): the generated __init__ takes exactly the declared fields and
\* raises TypeError on any other keyword.
NewQueue(kwargs) ==
    IF DOMAIN kwargs = QueueFields
    THEN [kind |-> "value", value |-> kwargs]
    ELSE [kind |-> "raise", exc |-> "TypeError"]

\* ------------------------------------------------------------------ store
\* expires_at > datetime('now'): the WHERE clause of every queue read.
NotExpired(row, t) == row.expires_at > t

\* SELECT ... FROM queues WHERE id = ? AND expires_at > datetime('now')
SelectQueue(qs, t, q) == {r \in qs : r.id = q /\ NotExpired(r, t)}

\* Database.get_queue: None when the SELECT has no row (kind "none"), else
\* Queue(id=, name=, creator_id=, created_at=, expires_at=) built from the row.
get_queue(qs, t, q) ==
    LET rows == SelectQueue(qs, t, q) IN
    IF rows = {} THEN [kind |-> "none"]
    ELSE LET row == CHOOSE r \in rows : TRUE IN
         NewQueue([id |-> row.id, name |-> row.name, creator_id |-> row.creator_id,
                   created_at |-> row.created_at, expires_at |-> row.expires_at])

create_queue_Rowid(qs, s, t, name, creator) ==
    LET id == Max({r.id : r \in qs} \cup {0}) + 1 IN
    [queues |-> qs \cup {[id |-> id, name |-> name, creator_id |-> creator,
                          created_at |-> t, expires_at |-> t + TTL]},
     seq |-> s + 1,
     ret |-> id]

\* INSERT INTO queues (name, creator_id): the id is the AUTOINCREMENT sequence + 1,
\* created_at the clock, expires_at one day later.
create_queue(qs, s, t, name, creator) ==
    [queues |-> qs \cup {[id |-> s + 1, name |-> name, creator_id |-> creator,
                          created_at |-> t, expires_at |-> t + TTL]},
     seq |-> s + 1,
     ret |-> s + 1]

\* SELECT COALESCE(MAX(position), 0) + 1 FROM queue_members WHERE queue_id = ?
NextPosition(m, q) == Max(Positions(m, q) \cup {0}) + 1

InsertMember_NoKey(m, q, u, p) ==
    [members |-> [m EXCEPT ![q] = Append(@, [user_id |-> u, position |-> p])],
     ok |-> TRUE]

\* INSERT INTO queue_members (queue_id, user_id, position): refused (IntegrityError)
\* when a row with the PRIMARY KEY (queue_id, user_id) exists. The FOREIGN KEY
\* clauses are not enforced: no connection sets PRAGMA foreign_keys.
InsertMember(m, q, u, p) ==
    IF MemberRows(m, q, u) # {}
    THEN [members |-> m, ok |-> FALSE]
    ELSE [members |-> [m EXCEPT ![q] = Append(@, [user_id |-> u, position |-> p])],
          ok |-> TRUE]

add_to_queue_Min(m, q, u) ==
    LET position == Min(Positions(m, q) \cup {0}) + 1
        ins == InsertMember(m, q, u, position) IN
    [members |-> ins.members,
     ret |-> IF ins.ok THEN position ELSE None,
     exc |-> IF ins.ok THEN "none" ELSE "IntegrityError"]

\* Database.add_to_queue: the position read, then the INSERT; exc names the
\* exception the call ends with.
add_to_queue(m, q, u) ==
    LET position == NextPosition(m, q)
        ins == InsertMember(m, q, u, position) IN
    [members |-> ins.members,
     ret |-> IF ins.ok THEN position ELSE None,
     exc |-> IF ins.ok THEN "none" ELSE "IntegrityError"]

DeleteAndRenumber_All(m, q, u, removed_position) ==
    LET kept == SeqWithout(m[q], MemberRows(m, q, u)) IN
    [m EXCEPT ![q] = [i \in DOMAIN kept |-> [kept[i] EXCEPT !.position = @ - 1]]]

DeleteAndRenumber_NoQueueFilter(m, q, u, removed_position) ==
    LET kept == SeqWithout(m[q], MemberRows(m, q, u)) IN
    [x \in DOMAIN m |->
        LET rows == IF x = q THEN kept ELSE m[x] IN
        [i \in DOMAIN rows |->
            IF rows[i].position > removed_position
            THEN [rows[i] EXCEPT !.position = @ - 1] ELSE rows[i]]]

\* DELETE FROM queue_members WHERE queue_id = ? AND user_id = ?  followed by
\* UPDATE queue_members SET position = position - 1 WHERE queue_id = ? AND position > ?
\* committed together.
DeleteAndRenumber(m, q, u, removed_position) ==
    LET kept == SeqWithout(m[q], MemberRows(m, q, u)) IN
    [m EXCEPT ![q] = [i \in DOMAIN kept |->
        IF kept[i].position > removed_position
        THEN [kept[i] EXCEPT !.position = @ - 1] ELSE kept[i]]]

remove_from_queue_NoRenumber(m, q, u) ==
    [members |-> [m EXCEPT ![q] = SeqWithout(m[q], MemberRows(m, q, u))], ret |-> None,
     exc |-> "none"]

\* Database.remove_from_queue: without a row of the pair, a plain `return`; with
\* one, the DELETE and the UPDATE. Both ways the call returns None and raises
\* nothing (exc names the exception the call ends with).
remove_from_queue(m, q, u) ==
    LET rows == MemberRows(m, q, u) IN
    IF rows = {} THEN [members |-> m, ret |-> None, exc |-> "none"]
    ELSE [members |-> DeleteAndRenumber(m, q, u, m[q][Min(rows)].position),
          ret |-> None, exc |-> "none"]

\* Database.delete_queue: the row is looked up by id and creator_id only, and only
\* the queues row is deleted.
delete_queue(qs, q, creator) ==
    LET rows == {r \in qs : r.id = q /\ r.creator_id = creator} IN
    IF rows = {} THEN [queues |-> qs, ret |-> FALSE]
    ELSE [queues |-> qs \ rows, ret |-> TRUE]

\* Database.remove_user_from_queue
remove_user_from_queue(qs, m, q, u, creator) ==
    IF {r \in qs : r.id = q /\ r.creator_id = creator} = {}
    THEN [members |-> m, ret |-> FALSE]
    ELSE LET rows == MemberRows(m, q, u) IN
         IF rows = {} THEN [members |-> m, ret |-> FALSE]
         ELSE [members |-> DeleteAndRenumber(m, q, u, m[q][Min(rows)].position),
               ret |-> TRUE]

cleanup_expired_queues_Created(qs, t) == {r \in qs : ~(r.created_at <= t)}

\* Database.cleanup_expired_queues: DELETE FROM queues WHERE expires_at <= datetime('now')
cleanup_expired_queues(qs, t) == {r \in qs : ~(r.expires_at <= t)}

\* Database.get_queue_member: the member row joined with its users row, as <<row>>;
\* <<>> stands for None (no member row, or no users row for it).
get_queue_member(us, m, q, u) ==
    LET rows == {i \in MemberRows(m, q, u) : u \in us} IN
    IF rows = {} THEN <<>> ELSE <<m[q][Min(rows)]>>

\* Database.get_next_in_queue: the joined row of smallest position, as <<row>>;
\* <<>> stands for None.
get_next_in_queue(us, m, q) ==
    LET rows == {i \in MembersOf(m, q) : m[q][i].user_id \in us} IN
    IF rows = {} THEN <<>>
    ELSE <<m[q][CHOOSE i \in rows : \A o \in rows : m[q][i].position <= m[q][o].position]>>

\* Database.get_queue_members: the rows joined with users, ORDER BY position ASC.
RECURSIVE SortByPosition(_)
SortByPosition(rows) ==
    IF rows = {} THEN <<>>
    ELSE LET first == CHOOSE r \in rows : \A o \in rows : r.position <= o.position IN
         <<first>> \o SortByPosition(rows \ {first})

get_queue_members(us, m, q) ==
    SortByPosition({m[q][i] : i \in {j \in MembersOf(m, q) : m[q][j].user_id \in us}})

\* Database.get_queue_member_count: SELECT COUNT(*)
get_queue_member_count(m, q) == Cardinality(MembersOf(m, q))

\* ------------------------------------------------------------------- Init
\* What a handler's try block found when it ran (kept for the properties): was the
\* queue row there and not expired, is the requester its creator, has the requester
\* a member row, how many member rows the queue has.
NoPre == [visible |-> FALSE, creator |-> FALSE, member |-> FALSE, n |-> 0]
PreOf(q, u) ==
    [visible |-> SelectQueue(queues, now, q) # {},
     creator |-> \E r \in queues : r.id = q /\ r.creator_id = u,
     member |-> MemberRows(members, q, u) # {},
     n |-> Len(members[q])]

\* A handler frame: the update it serves (op, user, qid), where it is (pc), the lock
\* it was given, the answer it gives (out, with the position and total of a Join),
\* the exception it caught (exc).
IdleFrame == [op |-> "idle", pc |-> "idle", user |-> None, qid |-> None,
              lock |-> None, out |-> "none", exc |-> "none", pos |-> 0, total |-> 0,
              pre |-> NoPre]
\* A finished handler: how it ended, "returned" after its answer, "caught" after
\* the answer of its except clause, "raised" when an exception left the handler.
DoneFrame(how) == [IdleFrame EXCEPT !.pc = "done", !.out = how]

\* No connection is open with statements to commit.
NoTxn == [pc |-> "closed", via |-> "none", qid |-> None, user |-> None,
          removed_position |-> None, count |-> 0, rows |-> <<>>]

\* The program state apart from the tables: no lock, no update in flight, no
\* connection open.
ProgInit ==
    /\ txn = NoTxn
    /\ cleanup_task = "sleep"
    /\ user_states = {}
    /\ queue_locks = [q \in QueueIds |-> None]
    /\ lock_owner = <<>>
    /\ waitq = <<>>
    /\ hs = [h \in Handlers |-> IdleFrame]

\* After Database.init_db on a new file: three empty tables.
Init ==
    /\ users = {}
    /\ queues = {}
    /\ seq = 0
    /\ members = [q \in QueueIds |-> <<>>]
    /\ now = 0
    /\ ProgInit

\* The clock advances.
Tick ==
    /\ now < MaxTime
    /\ now' = now + 1
    /\ UNCHANGED <<users, queues, seq, members, progvars, txn>>

\* -------------------------------------------------------------- StoreSpec
\* The Database methods called directly, each call running to its commit: the
\* mutators of one queue id are never called concurrently (main.py calls each of
\* them holding that id's lock) and touch only rows of that id.
\* The users are registered beforehand.
StoreInit ==
    /\ users = Users
    /\ queues = {}
    /\ seq = 0
    /\ members = [q \in QueueIds |-> <<>>]
    /\ now = 0
    /\ ProgInit

\* create_queue, for as many queues as there are ids to name.
StoreCreateQueue ==
    \E c \in Users :
        /\ seq < Max(QueueIds)
        /\ LET r == create_queue(queues, seq, now, Letters(1), c) IN
            /\ queues' = r.queues
            /\ seq' = r.seq
        /\ UNCHANGED <<users, members, now, progvars, txn>>

StoreAddToQueue ==
    \E q \in QueueIds, u \in Users :
        /\ members' = add_to_queue(members, q, u).members
        /\ UNCHANGED <<users, queues, seq, now, progvars, txn>>

StoreRemoveFromQueue ==
    \E q \in QueueIds, u \in Users :
        /\ members' = remove_from_queue(members, q, u).members
        /\ UNCHANGED <<users, queues, seq, now, progvars, txn>>

StoreRemoveUserFromQueue ==
    \E q \in QueueIds, u \in Users, c \in Users :
        /\ members' = remove_user_from_queue(queues, members, q, u, c).members
        /\ UNCHANGED <<users, queues, seq, now, progvars, txn>>

StoreDeleteQueue ==
    \E q \in QueueIds, c \in Users :
        /\ queues' = delete_queue(queues, q, c).queues
        /\ UNCHANGED <<users, seq, members, now, progvars, txn>>

StoreCleanup ==
    /\ queues' = cleanup_expired_queues(queues, now)
    /\ UNCHANGED <<users, seq, members, now, progvars, txn>>

StoreNext ==
    \/ StoreCreateQueue
    \/ StoreAddToQueue
    \/ StoreRemoveFromQueue
    \/ StoreRemoveUserFromQueue
    \/ StoreDeleteQueue
    \/ StoreCleanup
    \/ Tick

StoreSpec == StoreInit /\ [][StoreNext]_vars

\* ------------------------------------------------------- claims on the store
\* C1 (contiguity): in every reachable state the positions stored for each queue id
\* are exactly 1..N, N the number of its rows, no position missing and none twice.
C1_Contiguous ==
    \A q \in QueueIds :
        /\ Positions(members, q) = 1..Len(members[q])
        /\ \A i, j \in DOMAIN members[q] :
              members[q][i].position = members[q][j].position => i = j

\* A queue whose rows are those of users 10 and 30, in that order, at positions 1
\* and 2 (as after 10, 20 and 30 joined and 20 was removed).
C1_Witness ==
    \E q \in QueueIds :
        /\ Len(members[q]) = 2
        /\ members[q][1].user_id = 10
        /\ members[q][2].user_id = 30
        /\ members[q][2].position = 2

\* C2 (uniqueness): in every reachable state no (queue_id, user_id) pair has two rows.
C2_OneMembershipPerUser ==
    \A q \in QueueIds : \A i, j \in DOMAIN members[q] :
        members[q][i].user_id = members[q][j].user_id => i = j

\* Every user is a member of the same queue: a further add_to_queue for any of them
\* is one for a pair that has a row.
C2_Witness ==
    \E q \in QueueIds : {members[q][i].user_id : i \in DOMAIN members[q]} = Users

\* C3 (FIFO): of two members of a queue, the one inserted first (the earlier row)
\* holds the strictly smaller position, in every reachable state.
C3_Fifo ==
    \A q \in QueueIds : \A i, j \in DOMAIN members[q] :
        i < j => members[q][i].position < members[q][j].position

\* 20 joined before 30, 10 left and joined again: 20 is first, 30 second, 10 last.
C3_Witness ==
    \E q \in QueueIds :
        /\ Len(members[q]) = 3
        /\ members[q][1].user_id = 20 /\ members[q][1].position = 1
        /\ members[q][2].user_id = 30 /\ members[q][2].position = 2
        /\ members[q][3].user_id = 10 /\ members[q][3].position = 3

\* ------------------------------------------------------------------ locks
\* asyncio.Lock(): a new lock object, unlocked. Objects are named by numbers: the
\* first lock made for queue id q is object q, any further one takes the next
\* number nobody has.
NewLock(lo, q) ==
    LET o == IF q \notin DOMAIN lo THEN q ELSE Max(DOMAIN lo \cup QueueIds) + 1 IN
    [lock_owner |-> [x \in DOMAIN lo \cup {o} |-> IF x = o THEN None ELSE lo[x]],
     lock |-> o]

get_queue_lock_Fresh(ql, lo, q) ==
    LET n == NewLock(lo, q) IN
    [queue_locks |-> [ql EXCEPT ![q] = n.lock], lock_owner |-> n.lock_owner, lock |-> n.lock]

get_queue_lock_Global(ql, lo, q) ==
    IF ql[1] = None
    THEN LET n == NewLock(lo, 1) IN
         [queue_locks |-> [ql EXCEPT ![1] = n.lock], lock_owner |-> n.lock_owner,
          lock |-> n.lock]
    ELSE [queue_locks |-> ql, lock_owner |-> lo, lock |-> ql[1]]

get_queue_lock_Idle(ql, lo, q) ==
    IF ql[q] = None \/ lo[ql[q]] = None
    THEN LET n == NewLock(lo, q) IN
         [queue_locks |-> [ql EXCEPT ![q] = n.lock], lock_owner |-> n.lock_owner,
          lock |-> n.lock]
    ELSE [queue_locks |-> ql, lock_owner |-> lo, lock |-> ql[q]]

\* get_queue_lock: the entry of queue_locks for the id, a new asyncio.Lock() on the
\* first request for it. The coroutine has no await inside: it runs in one piece.
get_queue_lock(ql, lo, q) ==
    IF ql[q] = None
    THEN LET n == NewLock(lo, q) IN
         [queue_locks |-> [ql EXCEPT ![q] = n.lock], lock_owner |-> n.lock_owner,
          lock |-> n.lock]
    ELSE [queue_locks |-> ql, lock_owner |-> lo, lock |-> ql[q]]

\* The handlers suspended in acquire() of lock object o, in arrival order.
WaitersOf(o) == SelectSeq(waitq, LAMBDA h : hs[h].lock = o)

LockExit_NoFinally(lo, f, how) ==
    IF f.lock = None \/ how = "exception" THEN lo ELSE [lo EXCEPT ![f.lock] = None]

LockExit_OnlyOnException(lo, f, how) ==
    IF f.lock = None \/ how = "normal" THEN lo ELSE [lo EXCEPT ![f.lock] = None]

\* Leaving `async with lock:` (lock.release() in __aexit__), by falling off the
\* block or a return ("normal") or by an exception passing through ("exception").
LockExit(lo, f, how) ==
    IF f.lock = None THEN lo ELSE [lo EXCEPT ![f.lock] = None]

\* `lock = await get_queue_lock(queue_id)` and the entry of `async with lock:`, with
\* no suspension between them: the lock is taken when it is free and nobody waits
\* for it, else the handler queues up in acquire().
EnterLock(h, f) ==
    LET g == get_queue_lock(queue_locks, lock_owner, f.qid)
        free == g.lock_owner[g.lock] = None /\ WaitersOf(g.lock) = <<>> IN
    /\ queue_locks' = g.queue_locks
    /\ IF free
       THEN /\ lock_owner' = [g.lock_owner EXCEPT ![g.lock] = h]
            /\ waitq' = waitq
            /\ hs' = [hs EXCEPT ![h] = [f EXCEPT !.lock = g.lock, !.pc = "body"]]
       ELSE /\ lock_owner' = g.lock_owner
            /\ waitq' = Append(waitq, h)
            /\ hs' = [hs EXCEPT ![h] = [f EXCEPT !.lock = g.lock, !.pc = "wait"]]

\* The first waiter of a released lock resumes in acquire() and owns the lock.
Acquire(h) ==
    /\ hs[h].pc = "wait"
    /\ lock_owner[hs[h].lock] = None
    /\ Head(WaitersOf(hs[h].lock)) = h
    /\ lock_owner' = [lock_owner EXCEPT ![hs[h].lock] = h]
    /\ waitq' = SelectSeq(waitq, LAMBDA x : x # h)
    /\ hs' = [hs EXCEPT ![h].pc = "body"]
    /\ UNCHANGED <<dbvars, queue_locks, txn, cleanup_task, user_states>>

\* --------------------------------------------------- handlers without a lock
\* cmd_start: get_user, and create_user for a user not registered yet.
CmdStart ==
    \E u \in Senders :
        /\ users' = users \cup {u}
        /\ UNCHANGED <<queues, seq, members, now, progvars, txn>>

\* cmd_create_queue, `text` being the message after the command word: answered
\* without a queue when the sender is not registered or the stripped name is empty,
\* else create_queue with the stripped name.
cmd_create_queue(u, text) ==
    LET queue_name == strip(text) IN
    /\ seq < MaxQueues
    /\ IF u \in users /\ queue_name # <<>>
       THEN LET r == create_queue(queues, seq, now, queue_name, u) IN
            /\ queues' = r.queues
            /\ seq' = r.seq
       ELSE UNCHANGED <<queues, seq>>
    /\ UNCHANGED <<users, members, now, progvars, txn>>

\* "/create_queue a"
CmdCreateQueue ==
    \E u \in Senders : cmd_create_queue(u, <<" ">> \o Letters(1))

cleanup_task_NoExcept(raised) == IF raised THEN "ended" ELSE "sleep"

\* One pass of `while True:` in cleanup_task: after cleanup_expired_queues returned
\* the task sleeps in the try block; after it raised, `except Exception` logs and
\* the task sleeps in the except clause. Either way the loop goes on.
cleanup_task_pass(raised) == IF raised THEN "except_sleep" ELSE "sleep"

\* The sleep of cleanup_task ends and cleanup_expired_queues runs to its commit.
Sweep ==
    /\ cleanup_task \in {"sleep", "except_sleep"}
    /\ queues' = cleanup_expired_queues(queues, now)
    /\ cleanup_task' = cleanup_task_pass(FALSE)
    /\ UNCHANGED <<users, seq, members, now, queue_locks, lock_owner, waitq, hs, txn, user_states>>

\* The sleep of cleanup_task ends and cleanup_expired_queues raises (sqlite3.Error)
\* with nothing committed.
SweepRaises ==
    /\ cleanup_task \in {"sleep", "except_sleep"}
    /\ cleanup_task' = cleanup_task_pass(TRUE)
    /\ UNCHANGED <<dbvars, queue_locks, lock_owner, waitq, hs, txn, user_states>>

\* ------------------------------------------------------ handlers with a lock
Startable(h) == hs[h].pc \in {"idle", "done"}
NewFrame(op, u, q) == [IdleFrame EXCEPT !.op = op, !.user = u, !.qid = q]

\* The try block ended with an answer to send (still inside `async with lock:`).
\* user_id is not read after the store calls: the frame drops it.
ToReply(h, pre, out) ==
    hs' = [hs EXCEPT ![h] = [@ EXCEPT !.pc = "reply", !.out = out, !.pre = pre,
                                      !.user = None]]
\* The try block raised: `except Exception` logs and answers "Произошла ошибка".
ToExcept(h, pre, exc) ==
    hs' = [hs EXCEPT ![h] = [@ EXCEPT !.pc = "except_reply", !.out = "Error",
                                      !.exc = exc, !.pre = pre, !.user = None]]

\* cmd_join_queue / callback_join_queue, up to the first await.
BeginJoin(h) ==
    \E u \in Senders, q \in QueueIds :
        /\ Startable(h)
        /\ hs' = [hs EXCEPT ![h] = [NewFrame("join", u, q) EXCEPT !.pc = "get_user"]]
        /\ UNCHANGED <<dbvars, queue_locks, lock_owner, waitq, txn, cleanup_task, user_states>>

JoinGetUser_NoCheck(h) ==
    /\ hs[h].pc = "get_user"
    /\ EnterLock(h, hs[h])
    /\ UNCHANGED <<dbvars, txn, cleanup_task, user_states>>

\* `user = await db.get_user(user_id)`: an unregistered sender is answered and the
\* handler returns; a registered one goes on to the lock.
JoinGetUser(h) ==
    /\ hs[h].pc = "get_user"
    /\ IF hs[h].user \notin users
       THEN /\ hs' = [hs EXCEPT ![h] = [@ EXCEPT !.pc = "reply", !.out = "NotRegistered",
                                                 !.user = None]]
            /\ UNCHANGED <<queue_locks, lock_owner, waitq>>
       ELSE EnterLock(h, hs[h])
    /\ UNCHANGED <<dbvars, txn, cleanup_task, user_states>>

\* The try block of cmd_join_queue / callback_join_queue.
JoinBody(h) ==
    /\ hs[h].pc = "body" /\ hs[h].op = "join"
    /\ LET f == hs[h]
           pre == PreOf(f.qid, f.user)
           queue == get_queue(queues, now, f.qid) IN
       IF queue.kind = "raise" THEN ToExcept(h, pre, queue.exc) /\ UNCHANGED members
       ELSE IF queue.kind = "none" THEN ToReply(h, pre, "QueueNotFound") /\ UNCHANGED members
       ELSE IF get_queue_member(users, members, f.qid, f.user) # <<>>
            THEN ToReply(h, pre, "AlreadyMember") /\ UNCHANGED members
       ELSE LET a == add_to_queue(members, f.qid, f.user) IN
            IF a.exc # "none" THEN ToExcept(h, pre, a.exc) /\ UNCHANGED members
            ELSE /\ members' = a.members
                 /\ hs' = [hs EXCEPT ![h] = [@ EXCEPT !.pc = "reply", !.out = "Joined",
                              !.pre = pre, !.user = None, !.pos = a.ret,
                              !.total = get_queue_member_count(a.members, f.qid)]]
    /\ UNCHANGED <<users, queues, seq, now, queue_locks, lock_owner, waitq, txn, cleanup_task, user_states>>

\* A handler that goes straight to its lock: cmd_next, cmd_leave_queue,
\* cmd_delete_queue, cmd_remove_user and their callbacks.
Begin(h, op) ==
    \E u \in Senders, q \in QueueIds :
        /\ Startable(h)
        /\ EnterLock(h, NewFrame(op, u, q))
        /\ UNCHANGED <<dbvars, txn, cleanup_task, user_states>>

BeginNext(h) == Begin(h, "next")
BeginLeave(h) == Begin(h, "leave")
BeginDeleteQueue(h) == Begin(h, "delete_queue")
BeginRemoveUser(h) == Begin(h, "remove_user")

\* The try block of cmd_next / callback_next_user; the answer "вызван" and
\* notify_user_about_turn that follow the removal are sent inside the block.
NextBody(h) ==
    /\ hs[h].pc = "body" /\ hs[h].op = "next"
    /\ LET f == hs[h]
           pre == PreOf(f.qid, f.user)
           queue == get_queue(queues, now, f.qid)
           next_member == get_next_in_queue(users, members, f.qid) IN
       IF queue.kind = "raise" THEN ToExcept(h, pre, queue.exc) /\ UNCHANGED members
       ELSE IF queue.kind = "none" THEN ToReply(h, pre, "QueueNotFound") /\ UNCHANGED members
       ELSE IF queue.value.creator_id # f.user
            THEN ToReply(h, pre, "NotAuthorized") /\ UNCHANGED members
       ELSE IF next_member = <<>> THEN ToReply(h, pre, "QueueEmpty") /\ UNCHANGED members
       ELSE /\ members' = remove_from_queue(members, f.qid, next_member[1].user_id).members
            /\ ToReply(h, pre, "Called")
    /\ UNCHANGED <<users, queues, seq, now, queue_locks, lock_owner, waitq, txn, cleanup_task, user_states>>

\* The try block of cmd_leave_queue / callback_leave_queue.
LeaveBody(h) ==
    /\ hs[h].pc = "body" /\ hs[h].op = "leave"
    /\ LET f == hs[h]
           pre == PreOf(f.qid, f.user) IN
       IF get_queue_member(users, members, f.qid, f.user) = <<>>
       THEN ToReply(h, pre, "NotMember") /\ UNCHANGED members
       ELSE /\ members' = remove_from_queue(members, f.qid, f.user).members
            /\ ToReply(h, pre, "Left")
    /\ UNCHANGED <<users, queues, seq, now, queue_locks, lock_owner, waitq, txn, cleanup_task, user_states>>

\* The try block of cmd_delete_queue / callback_delete_queue: one answer for a
\* queue that is not there and for a requester who is not its creator.
DeleteQueueBody(h) ==
    /\ hs[h].pc = "body" /\ hs[h].op = "delete_queue"
    /\ LET f == hs[h]
           pre == PreOf(f.qid, f.user)
           r == delete_queue(queues, f.qid, f.user) IN
       /\ queues' = r.queues
       /\ ToReply(h, pre, IF r.ret THEN "Deleted" ELSE "NotFoundOrNotCreator")
    /\ UNCHANGED <<users, seq, members, now, queue_locks, lock_owner, waitq, txn, cleanup_task, user_states>>

\* The try block of cmd_remove_user: past the creator check it calls
\* db.get_user_by_username, which Database does not define (AttributeError).
RemoveUserBody(h) ==
    /\ hs[h].pc = "body" /\ hs[h].op = "remove_user"
    /\ LET f == hs[h]
           pre == PreOf(f.qid, f.user)
           queue == get_queue(queues, now, f.qid) IN
       IF queue.kind = "raise" THEN ToExcept(h, pre, queue.exc)
       ELSE IF queue.kind = "none" THEN ToReply(h, pre, "QueueNotFound")
       ELSE IF queue.value.creator_id # f.user THEN ToReply(h, pre, "NotAuthorized")
       ELSE ToExcept(h, pre, "AttributeError")
    /\ UNCHANGED <<dbvars, queue_locks, lock_owner, waitq, txn, cleanup_task, user_states>>

\* ---------------------------------------------------- handlers that only read
\* cmd_status / callback_status and cmd_view_queue / callback_view_queue never call
\* get_queue_lock: they go from the update straight into their try block.
BeginStatus(h) ==
    \E u \in Senders, q \in QueueIds :
        /\ Startable(h)
        /\ hs' = [hs EXCEPT ![h] = [NewFrame("status", u, q) EXCEPT !.pc = "body"]]
        /\ UNCHANGED <<dbvars, queue_locks, lock_owner, waitq, txn, cleanup_task, user_states>>

BeginViewQueue(h) ==
    \E q \in QueueIds :
        /\ Startable(h)
        /\ hs' = [hs EXCEPT ![h] = [NewFrame("view_queue", None, q) EXCEPT !.pc = "body"]]
        /\ UNCHANGED <<dbvars, queue_locks, lock_owner, waitq, txn, cleanup_task, user_states>>

\* The try block of cmd_status / callback_status: the member row, then the queue
\* (queue.name of None raises AttributeError), then the count.
StatusBody(h) ==
    /\ hs[h].pc = "body" /\ hs[h].op = "status"
    /\ LET f == hs[h]
           pre == PreOf(f.qid, f.user)
           member == get_queue_member(users, members, f.qid, f.user)
           queue == get_queue(queues, now, f.qid) IN
       IF member = <<>> THEN ToReply(h, pre, "NotMember")
       ELSE IF queue.kind = "raise" THEN ToExcept(h, pre, queue.exc)
       ELSE IF queue.kind = "none" THEN ToExcept(h, pre, "AttributeError")
       ELSE hs' = [hs EXCEPT ![h] = [@ EXCEPT !.pc = "reply", !.out = "Status",
                        !.pre = pre, !.user = None, !.pos = member[1].position,
                        !.total = get_queue_member_count(members, f.qid)]]
    /\ UNCHANGED <<dbvars, queue_locks, lock_owner, waitq, txn, cleanup_task, user_states>>

\* The try block of cmd_view_queue / callback_view_queue.
ViewQueueBody(h) ==
    /\ hs[h].pc = "body" /\ hs[h].op = "view_queue"
    /\ LET f == hs[h]
           pre == PreOf(f.qid, f.user)
           queue == get_queue(queues, now, f.qid) IN
       IF queue.kind = "raise" THEN ToExcept(h, pre, queue.exc)
       ELSE IF queue.kind = "none" THEN ToReply(h, pre, "QueueNotFound")
       ELSE IF get_queue_members(users, members, f.qid) = <<>>
            THEN ToReply(h, pre, "QueueEmpty")
       ELSE ToReply(h, pre, "Listed")
    /\ UNCHANGED <<dbvars, queue_locks, lock_owner, waitq, txn, cleanup_task, user_states>>

\* A store call of the try block fails (sqlite3.Error) before it commits anything.
StoreRaises(h) ==
    /\ hs[h].pc = "body"
    /\ ToExcept(h, NoPre, "StorageError")
    /\ UNCHANGED <<dbvars, queue_locks, lock_owner, waitq, txn, cleanup_task, user_states>>

\* The answer is sent from inside a try block: every answer but the "not
\* registered" one of Join, which is sent before the lock and the block.
InTry(f) == ~(f.op = "join" /\ f.out = "NotRegistered")

\* `await message.answer(...)` of the try block, then the return (out of
\* `async with lock:` where there is one). A send that raises inside the try block
\* lands in its except clause.
Reply(h) ==
    /\ hs[h].pc = "reply"
    /\ LET f == hs[h] IN
       \/ /\ hs' = [hs EXCEPT ![h] = DoneFrame("returned")]
          /\ lock_owner' = LockExit(lock_owner, f, "normal")
       \/ /\ ~InTry(f)
          /\ hs' = [hs EXCEPT ![h] = DoneFrame("raised")]
          /\ UNCHANGED lock_owner
       \/ /\ InTry(f)
          /\ hs' = [hs EXCEPT ![h] = [f EXCEPT !.pc = "except_reply", !.out = "Error",
                                               !.exc = "TransportError", !.pre = NoPre]]
          /\ UNCHANGED lock_owner
    /\ UNCHANGED <<dbvars, queue_locks, waitq, txn, cleanup_task, user_states>>

\* `await message.answer("Произошла ошибка...")` of the except clause, then the end
\* of `async with lock:`; a send that raises here leaves the block as an exception.
ExceptReply(h) ==
    /\ hs[h].pc = "except_reply"
    /\ LET f == hs[h] IN
       \/ /\ hs' = [hs EXCEPT ![h] = DoneFrame("caught")]
          /\ lock_owner' = LockExit(lock_owner, f, "normal")
       \/ /\ hs' = [hs EXCEPT ![h] = DoneFrame("raised")]
          /\ lock_owner' = LockExit(lock_owner, f, "exception")
    /\ UNCHANGED <<dbvars, queue_locks, waitq, txn, cleanup_task, user_states>>

Next ==
    \/ CmdStart
    \/ CmdCreateQueue
    \/ Sweep
    \/ SweepRaises
    \/ Tick
    \/ \E h \in Handlers :
        \/ BeginJoin(h)
        \/ JoinGetUser(h)
        \/ BeginNext(h)
        \/ BeginLeave(h)
        \/ BeginDeleteQueue(h)
        \/ BeginRemoveUser(h)
        \/ Acquire(h)
        \/ JoinBody(h)
        \/ NextBody(h)
        \/ LeaveBody(h)
        \/ DeleteQueueBody(h)
        \/ RemoveUserBody(h)
        \/ BeginStatus(h)
        \/ BeginViewQueue(h)
        \/ StatusBody(h)
        \/ ViewQueueBody(h)
        \/ StoreRaises(h)
        \/ Reply(h)
        \/ ExceptReply(h)

Spec == Init /\ [][Next]_vars

\* ----------------------------------------------------- claims on the program
\* The handler is inside `async with lock:` (it owns a lock by its position).
InCritical(h) == hs[h].pc \in {"body", "reply", "except_reply"} /\ hs[h].lock # None
\* The handler awaits a Telegram send.
Sending(h) == hs[h].pc \in {"reply", "except_reply"}
\* This step is handler h running its try block to its answer, no store failure.
BodyStep(h) ==
    /\ hs[h].pc = "body"
    /\ hs'[h].pc \in {"reply", "except_reply"}
    /\ hs'[h].exc # "StorageError"
\* The answers that deny a creator-only operation.
Denied(out) == out \in {"NotAuthorized", "NotFoundOrNotCreator"}

\* C4 (concurrent joins): a Join on an active, empty queue by a registered user,
\* running while the Join of another registered user waits for the same queue,
\* succeeds and is given position 1, which no other row holds.
C4_ConcurrentJoins ==
    [][\A h1, h2 \in Handlers :
        ( /\ h1 # h2
          /\ hs[h1].op = "join" /\ hs[h2].op = "join"
          /\ hs[h2].pc = "wait" /\ hs[h2].qid = hs[h1].qid
          /\ hs[h1].user # hs[h2].user
          /\ hs[h1].user \in users /\ hs[h2].user \in users
          /\ BodyStep(h1)
          /\ PreOf(hs[h1].qid, hs[h1].user).visible
          /\ members[hs[h1].qid] = <<>> )
        => /\ hs'[h1].out = "Joined"
           /\ hs'[h1].pos = 1
           /\ members'[hs[h1].qid] = <<[user_id |-> hs[h1].user, position |-> 1]>>]_vars

\* C5 (mutual exclusion): in every reachable state at most one handler is inside
\* the `async with lock:` block of any one queue id.
C5_MutualExclusion ==
    \A h1, h2 \in Handlers :
        (h1 # h2 /\ InCritical(h1) /\ InCritical(h2)) => hs[h1].qid # hs[h2].qid

\* One handler is about to run its try block on a queue while another handler
\* waits for the lock of the same queue.
C5_Witness ==
    \E h1, h2 \in Handlers :
        /\ hs[h1].pc = "body" /\ hs[h1].lock # None
        /\ hs[h2].pc = "wait" /\ hs[h2].qid = hs[h1].qid

\* C6 (authorization): Advance, DeleteQueue or RemoveMember run by a requester who is
\* not the creator of the (active) queue is answered with a denial and changes no
\* table.
C6_NonCreatorDenied ==
    [][\A h \in Handlers :
        ( /\ hs[h].op \in {"next", "delete_queue", "remove_user"}
          /\ BodyStep(h)
          /\ PreOf(hs[h].qid, hs[h].user).visible
          /\ ~PreOf(hs[h].qid, hs[h].user).creator )
        => /\ Denied(hs'[h].out)
           /\ queues' = queues /\ members' = members /\ users' = users]_vars

\* C7 (no lock across a send): in every reachable state a handler that awaits a
\* Telegram send (an answer, a notification) owns no queue lock.
C7_NoLockWhileSending ==
    \A h \in Handlers : Sending(h) =>
        \A o \in DOMAIN lock_owner : lock_owner[o] # h

\* C8 (release): in every reachable state every owned lock is owned by a handler
\* that is inside its `async with lock:` block for that lock; none is owned by a
\* handler that has finished or not started.
C8_LockReleasedAtEnd ==
    \A o \in DOMAIN lock_owner :
        lock_owner[o] # None =>
            /\ InCritical(lock_owner[o])
            /\ hs[lock_owner[o]].lock = o

\* A handler has finished through its except clause (its store call raised) and
\* every lock made so far is free.
C8_Witness ==
    /\ \E h \in Handlers : hs[h].pc = "done" /\ hs[h].out = "caught"
    /\ DOMAIN lock_owner # {}
    /\ \A o \in DOMAIN lock_owner : lock_owner[o] = None

\* C9 (Advance): Advance by the creator on an active queue answers QueueEmpty and
\* changes nothing when the queue has no member, and otherwise removes the member
\* at position 1 and lowers every other position by one.
C9_Advance ==
    [][\A h \in Handlers :
        ( /\ hs[h].op = "next"
          /\ BodyStep(h)
          /\ PreOf(hs[h].qid, hs[h].user).visible
          /\ PreOf(hs[h].qid, hs[h].user).creator )
        => LET q == hs[h].qid IN
           IF members[q] = <<>>
           THEN hs'[h].out = "QueueEmpty" /\ members' = members
           ELSE /\ hs'[h].out = "Called"
                /\ Len(members'[q]) = Len(members[q]) - 1
                /\ \A i \in DOMAIN members[q] :
                     members[q][i].position # 1 =>
                        \E j \in DOMAIN members'[q] :
                            /\ members'[q][j].user_id = members[q][i].user_id
                            /\ members'[q][j].position = members[q][i].position - 1]_vars

\* C10 (Join): Join by a registered user who has no row in an active queue of N
\* members appends the row (user, N+1), leaves the other rows as they are and
\* answers position N+1 of N+1.
C10_Join ==
    [][\A h \in Handlers :
        ( /\ hs[h].op = "join"
          /\ BodyStep(h)
          /\ hs[h].user \in users
          /\ PreOf(hs[h].qid, hs[h].user).visible
          /\ ~PreOf(hs[h].qid, hs[h].user).member )
        => LET q == hs[h].qid
               n == Len(members[q]) IN
           /\ hs'[h].out = "Joined"
           /\ hs'[h].pos = n + 1 /\ hs'[h].total = n + 1
           /\ members'[q] = Append(members[q], [user_id |-> hs[h].user, position |-> n + 1])]_vars

\* ------------------------------------------------ the program on a kept store
\* The program started on a database file that holds rows already (init_db creates
\* the tables only IF NOT EXISTS): the users registered, and either no queue, or
\* queue 1 of user 10 with the member rows that add_to_queue writes for 20, 10 and
\* 30 joining in that order, the first k of them.
SeedRows == <<[user_id |-> 20, position |-> 1], [user_id |-> 10, position |-> 2],
              [user_id |-> 30, position |-> 3]>>

PopulatedInit ==
    /\ users = Users
    /\ now = 0
    /\ \/ /\ queues = {} /\ seq = 0
          /\ members = [q \in QueueIds |-> <<>>]
       \/ \E k \in 0..Len(SeedRows) :
          /\ queues = create_queue({}, 0, 0, Letters(1), 10).queues
          /\ seq = 1
          /\ members = [q \in QueueIds |-> IF q = 1 THEN SubSeq(SeedRows, 1, k) ELSE <<>>]
    /\ ProgInit

PopulatedSpec == PopulatedInit /\ [][Next]_vars

\* C11 (AlreadyMember): Join by a registered user who has a row in the active queue
\* is answered AlreadyMember and leaves every member row as it was.
C11_AlreadyMember ==
    [][\A h \in Handlers :
        ( /\ hs[h].op = "join"
          /\ BodyStep(h)
          /\ hs[h].user \in users
          /\ PreOf(hs[h].qid, hs[h].user).visible
          /\ PreOf(hs[h].qid, hs[h].user).member )
        => /\ hs'[h].out = "AlreadyMember"
           /\ members' = members]_vars

\* C12 (Leave): Leave by a registered user who has a row at position p in the queue
\* removes that row and no other, lowers by one the position of every row that was
\* behind p and keeps the position of every row that was before p.
C12_LeaveRenumbers ==
    [][\A h \in Handlers :
        ( /\ hs[h].op = "leave"
          /\ BodyStep(h)
          /\ hs[h].user \in users
          /\ PreOf(hs[h].qid, hs[h].user).member )
        => LET q == hs[h].qid
               u == hs[h].user
               p == members[q][Min(MemberRows(members, q, u))].position IN
           /\ hs'[h].out = "Left"
           /\ MemberRows(members', q, u) = {}
           /\ Len(members'[q]) = Len(members[q]) - 1
           /\ \A i \in DOMAIN members[q] :
                members[q][i].user_id # u =>
                    \E j \in DOMAIN members'[q] :
                        /\ members'[q][j].user_id = members[q][i].user_id
                        /\ members'[q][j].position =
                             IF members[q][i].position > p
                             THEN members[q][i].position - 1
                             ELSE members[q][i].position
           /\ \A o \in QueueIds \ {q} : members'[o] = members[o]]_vars

\* User 10 left the queue of 20, 10 and 30 from position 2 and is about to be
\* answered: 20 is still at position 1 and 30 moved from 3 to 2.
C12_Witness ==
    \E h \in Handlers :
        /\ hs[h].op = "leave" /\ hs[h].pc = "reply" /\ hs[h].out = "Left"
        /\ hs[h].pre.n = 3
        /\ members[hs[h].qid] = <<[user_id |-> 20, position |-> 1],
                                  [user_id |-> 30, position |-> 2]>>

\* ------------------------------------------------- a removal, statement by statement
\* Database.remove_from_queue and Database.remove_user_from_queue open a connection,
\* read the position, execute DELETE and UPDATE and commit once; every await between
\* the statements lets other coroutines run, each on a connection of its own. txn is
\* that connection: via names the method, rows is queue_members WHERE queue_id = qid
\* as the connection sees it, members stays the committed table every other
\* connection reads.

TxnWrite_Autocommit(m, q, rows) == [m EXCEPT ![q] = rows]

\* The committed table after a statement executed inside the open transaction of
\* another connection: what it was (the statement is published by commit only).
TxnWrite(m, q, rows) == m

\* `async with aiosqlite.connect(...)` and the SELECTs that open the method: the
\* creator test of remove_user_from_queue, then the position of the row. Without a
\* row the method returns and nothing was executed. (creator_id is a parameter of
\* remove_user_from_queue only.)
TxnSelect ==
    \E q \in QueueIds, u \in Users, via \in {"remove_from_queue", "remove_user_from_queue"},
       creator \in Users :
        /\ txn.pc = "closed"
        /\ via = "remove_from_queue" => creator = 10
        /\ LET rows == MemberRows(members, q, u)
               refused == /\ via = "remove_user_from_queue"
                          /\ {r \in queues : r.id = q /\ r.creator_id = creator} = {} IN
           IF refused \/ rows = {}
           THEN txn' = NoTxn
           ELSE txn' = [pc |-> "selected", via |-> via, qid |-> q, user |-> u,
                        removed_position |-> members[q][Min(rows)].position,
                        count |-> get_queue_member_count(members, q),
                        rows |-> members[q]]
        /\ UNCHANGED <<dbvars, progvars>>

\* DELETE FROM queue_members WHERE queue_id = ? AND user_id = ?
TxnDelete ==
    /\ txn.pc = "selected"
    /\ LET rows == SeqWithout(txn.rows, {i \in DOMAIN txn.rows : txn.rows[i].user_id = txn.user}) IN
        /\ txn' = [txn EXCEPT !.pc = "deleted", !.rows = rows]
        /\ members' = TxnWrite(members, txn.qid, rows)
    /\ UNCHANGED <<users, queues, seq, now, progvars>>

\* UPDATE queue_members SET position = position - 1 WHERE queue_id = ? AND position > ?
TxnUpdate ==
    /\ txn.pc = "deleted"
    /\ LET rows == [i \in DOMAIN txn.rows |->
                      IF txn.rows[i].position > txn.removed_position
                      THEN [txn.rows[i] EXCEPT !.position = @ - 1] ELSE txn.rows[i]] IN
        /\ txn' = [txn EXCEPT !.pc = "updated", !.rows = rows]
        /\ members' = TxnWrite(members, txn.qid, rows)
    /\ UNCHANGED <<users, queues, seq, now, progvars>>

\* await db.commit(): the statements are published together.
TxnCommit ==
    /\ txn.pc = "updated"
    /\ members' = [members EXCEPT ![txn.qid] = txn.rows]
    /\ txn' = [txn EXCEPT !.pc = "committed"]
    /\ UNCHANGED <<users, queues, seq, now, progvars>>

\* An await of the method raises (sqlite3.Error) after the SELECT, between the
\* statements or in commit: the exception leaves the method with nothing committed.
TxnFail ==
    /\ txn.pc \in {"selected", "deleted", "updated"}
    /\ txn' = [txn EXCEPT !.pc = "failed"]
    /\ UNCHANGED <<dbvars, progvars>>

\* The end of `async with aiosqlite.connect(...)`: the connection is closed, what
\* it had not committed is rolled back.
TxnClose ==
    /\ txn.pc \in {"committed", "failed"}
    /\ txn' = NoTxn
    /\ UNCHANGED <<dbvars, progvars>>

TxnNext ==
    \/ TxnSelect
    \/ TxnDelete
    \/ TxnUpdate
    \/ TxnCommit
    \/ TxnFail
    \/ TxnClose
    \/ Tick

\* The removals run on a store that holds the queue and its member rows.
TxnSpec == PopulatedInit /\ [][TxnNext]_vars

\* C13 (single unit): in every reachable state, also between the DELETE and the
\* UPDATE of a removal and after a removal failed, what a reader without a lock gets
\* is whole: get_queue_members lists positions 1..n with none missing; until the
\* commit, and for good after a failure, get_queue_member and
\* get_queue_member_count return what they returned before the removal began; and
\* what the commit publishes is the row deleted and the later rows renumbered.
C13_SingleUnit ==
    /\ \A q \in QueueIds :
          LET l == get_queue_members(users, members, q) IN
          \A i \in DOMAIN l : l[i].position = i
    /\ txn.pc \in {"selected", "deleted", "updated", "failed"} =>
          /\ get_queue_member(users, members, txn.qid, txn.user)
               = <<[user_id |-> txn.user, position |-> txn.removed_position]>>
          /\ get_queue_member_count(members, txn.qid) = txn.count
    /\ txn.pc = "updated" =>
          txn.rows = DeleteAndRenumber(members, txn.qid, txn.user, txn.removed_position)[txn.qid]
    /\ txn.pc = "committed" =>
          /\ get_queue_member(users, members, txn.qid, txn.user) = <<>>
          /\ get_queue_member_count(members, txn.qid) = txn.count - 1

\* A removal failed after its DELETE and before its UPDATE: the rows the connection
\* held had a missing position (a member was behind the removed one).
C13_Witness ==
    /\ txn.pc = "failed"
    /\ {txn.rows[i].position : i \in DOMAIN txn.rows} # 1..Len(txn.rows)

\* ------------------------------------------------------------------ reads
\* Database.get_all_queues: Queue(...) built for every row that is not expired; the
\* first row raises what Queue raises, no row gives the empty list.
get_all_queues(qs, t) ==
    LET rows == {r \in qs : NotExpired(r, t)}
        built == {NewQueue([id |-> r.id, name |-> r.name, creator_id |-> r.creator_id,
                            created_at |-> r.created_at, expires_at |-> r.expires_at])
                  : r \in rows} IN
    IF \E b \in built : b.kind = "raise"
    THEN [kind |-> "raise", exc |-> "TypeError"]
    ELSE [kind |-> "value", value |-> {b.value : b \in built}]

\* C14 (visibility): in every reachable state get_queue returns the stored record of
\* the id when the queue exists and its expires_at is later than now and None
\* otherwise, and get_all_queues returns the records of exactly those queues.
C14_GetQueue ==
    /\ \A q \in QueueIds :
          LET r == get_queue(queues, now, q) IN
          IF \E row \in queues : row.id = q /\ row.expires_at > now
          THEN /\ r.kind = "value"
               /\ r.value.id = q
               /\ \E row \in queues : /\ row.id = q
                                      /\ row.name = r.value.name
                                      /\ row.creator_id = r.value.creator_id
          ELSE r.kind = "none"
    /\ LET l == get_all_queues(queues, now) IN
          /\ l.kind = "value"
          /\ {v.id : v \in l.value} = {row.id : row \in {x \in queues : x.expires_at > now}}

\* The answer an operation gives when the queue and its member rows are not there.
AsIfDeleted(op) ==
    CASE op = "leave" -> "NotMember"
      [] op = "status" -> "NotMember"
      [] op = "delete_queue" -> "NotFoundOrNotCreator"
      [] OTHER -> "QueueNotFound"

\* C15 (expired, not swept): a Join, Leave, Advance, DeleteQueue or RemoveMember on a
\* queue whose row is still stored but whose expires_at has passed gives the answer
\* it gives when the queue is not there, and removes or renumbers no member row.
C15_ExpiredAsDeleted ==
    [][\A h \in Handlers :
        ( /\ BodyStep(h)
          /\ \E row \in queues : row.id = hs[h].qid /\ row.expires_at <= now )
        => /\ hs'[h].out = AsIfDeleted(hs[h].op)
           /\ members' = members]_vars

\* C16 (cascade): a step that deletes the row of a queue (delete_queue by its creator,
\* cleanup_expired_queues for an expired one) leaves no member row with that queue_id.
C16_CascadeOnDelete ==
    [][\A q \in QueueIds :
        ( /\ \E row \in queues : row.id = q
          /\ ~ \E row \in queues' : row.id = q )
        => members'[q] = <<>>]_vars

\* C17 (idempotent sweep): in every reachable state, cleanup_expired_queues run on
\* the table that cleanup_expired_queues leaves, the clock unchanged, returns that
\* table, and run on a table without an expired row it returns the table as it is.
\* (Its one statement names the queues table only: the other tables are not written.)
C17_SweepIdempotent ==
    LET once == cleanup_expired_queues(queues, now) IN
    /\ cleanup_expired_queues(once, now) = once
    /\ (\A row \in queues : row.expires_at > now) => once = queues

\* A queue is stored whose expiry has passed: the sweep has a row to delete, and a
\* second run finds none.
C17_Witness ==
    /\ \E row \in queues : row.expires_at <= now
    /\ cleanup_expired_queues(queues, now) # queues

\* ------------------------------------------------------------ the sweeper runs
\* The program with the sweeper scheduled: main creates the task of cleanup_task
\* before polling starts and cancels it only when polling ends, and every sleep of
\* the task ends; the passes do not all raise (a pass that commits keeps its turn).
LiveSpec == Init /\ [][Next]_vars /\ WF_vars(Sweep)

\* C18 (sweeper liveness): every queue row whose expires_at has passed is deleted
\* from the table at some later time, also when passes of the sweeper raise.
C18_ExpiredEventuallySwept ==
    \A q \in QueueIds :
        (\E row \in queues : row.id = q /\ row.expires_at <= now)
            ~> (~ \E row \in queues : row.id = q)

\* A pass of the sweeper raised while a queue row is stored whose expiry has passed:
\* the task sleeps in its except clause and the row waits for the next pass.
C18_Witness ==
    /\ cleanup_task = "except_sleep"
    /\ \E row \in queues : row.expires_at <= now

\* C19 (no cross-queue blocking): in every reachable state a handler suspended in
\* acquire() waits for a lock that only handlers of its own queue id own or wait
\* for, and a handler of Status or of view queue has no lock and is never suspended
\* in acquire().
C19_NoCrossQueueBlocking ==
    /\ \A h, o \in Handlers :
          ( /\ hs[h].pc = "wait"
            /\ hs[o].lock = hs[h].lock
            /\ hs[o].pc \in {"wait", "body", "reply", "except_reply"} )
          => hs[o].qid = hs[h].qid
    /\ \A h \in Handlers :
          hs[h].op \in {"status", "view_queue"} => hs[h].pc # "wait" /\ hs[h].lock = None

\* Two handlers are inside `async with lock:` at the same time, one for each of two
\* queue ids.
C19_Witness ==
    \E h1, h2 \in Handlers :
        /\ InCritical(h1) /\ InCritical(h2)
        /\ hs[h1].qid # hs[h2].qid

\* C20 (no existence leak): Advance, DeleteQueue or RemoveMember run by a requester
\* who is not the creator of a queue with the id is given one and the same answer,
\* the answer for an id that no queue has, whether or not a queue of somebody else
\* is stored under the id.
C20_NoExistenceLeak ==
    [][\A h \in Handlers :
        ( /\ hs[h].op \in {"next", "delete_queue", "remove_user"}
          /\ BodyStep(h)
          /\ ~PreOf(hs[h].qid, hs[h].user).creator )
        => hs'[h].out = AsIfDeleted(hs[h].op)]_vars

\* C21 (RemoveMember): RemoveMember by the creator of an active queue either removes
\* one member row, the rows behind it moving up by one, and answers that the user
\* was removed, or, the target having no row, answers NotMember and changes no row.
C21_RemoveMember ==
    [][\A h \in Handlers :
        ( /\ hs[h].op = "remove_user"
          /\ BodyStep(h)
          /\ PreOf(hs[h].qid, hs[h].user).visible
          /\ PreOf(hs[h].qid, hs[h].user).creator )
        => LET q == hs[h].qid IN
           \/ /\ hs'[h].out = "Removed"
              /\ Len(members'[q]) = Len(members[q]) - 1
              /\ Positions(members', q) = 1..Len(members'[q])
           \/ /\ hs'[h].out = "NotMember"
              /\ members' = members]_vars

C23_IdsNeverReused ==
    [][/\ seq' >= seq
       /\ \A row \in queues : row.id <= seq
       /\ \A row \in queues' \ queues : row.id > seq /\ row.id <= seq']_vars

\* The second queue was created, the first one is not stored any more: the new
\* queue has id 2, the member row left behind under id 1 is not a row of it.
C23_Witness ==
    /\ seq = 2
    /\ {row.id : row \in queues} = {2}
    /\ members[1] # <<>>
    /\ members[2] = <<>>

\* ------------------------------------------------------------- CreateSpec
\* What a user can type after "/create_queue" or as the answer of the menu
\* dialogue: nothing, blanks, a short name between blanks, a name of exactly
\* MaxNameLen letters and one of MaxNameLen + 1.
Texts ==
    {<<>>, <<" ", " ">>, <<" ">> \o Letters(2) \o <<" ">>,
     Letters(MaxNameLen), Letters(MaxNameLen + 1)}

\* cmd_create_queue with any text.
CreateQueueCommand ==
    \E u \in Senders, text \in Texts : cmd_create_queue(u, text)

\* callback_create_queue (menu button "create_queue"): the user's entry in
\* user_states is set to waiting_queue_name.
CallbackCreateQueue ==
    \E u \in Senders :
        /\ user_states' = user_states \cup {u}
        /\ UNCHANGED <<dbvars, queue_locks, lock_owner, waitq, hs, cleanup_task, txn>>

\* callback_main_menu (the dialogue's "cancel" button): the entry is deleted.
CallbackMainMenu ==
    \E u \in Senders :
        /\ user_states' = user_states \ {u}
        /\ UNCHANGED <<dbvars, queue_locks, lock_owner, waitq, hs, cleanup_task, txn>>

\* handle_unknown_message, a message that is no command: with the sender's entry
\* at waiting_queue_name, an empty or too long stripped name is answered with the
\* entry kept, any other name is stored by create_queue and the entry deleted;
\* without the entry the help text is sent.
HandleUnknownMessage ==
    \E u \in Senders, text \in Texts :
        LET queue_name == strip(text) IN
        /\ seq < MaxQueues
        /\ IF u \in user_states /\ queue_name # <<>> /\ ~(Len(queue_name) > MaxNameLen)
           THEN LET r == create_queue(queues, seq, now, queue_name, u) IN
                /\ queues' = r.queues
                /\ seq' = r.seq
                /\ user_states' = user_states \ {u}
           ELSE UNCHANGED <<queues, seq, user_states>>
        /\ UNCHANGED <<users, members, now, queue_locks, lock_owner, waitq, hs,
                       cleanup_task, txn>>

CreateNext ==
    \/ CmdStart
    \/ CreateQueueCommand
    \/ CallbackCreateQueue
    \/ CallbackMainMenu
    \/ HandleUnknownMessage
    \/ Sweep
    \/ Tick

CreateSpec == Init /\ [][CreateNext]_vars

\* C24 (name validation): every stored queue has a non-empty name of at most
\* MaxNameLen characters.
C24_StoredNamesValid ==
    \A row \in queues : Len(row.name) \in 1..MaxNameLen

\* C25 (insert only into a live queue): every step that adds a member row to a
\* queue id finds a row of that id in the queues table that is not expired.
C25_InsertOnlyIntoLiveQueue ==
    [][\A q \in QueueIds :
        Len(members'[q]) > Len(members[q]) => SelectQueue(queues, now, q) # {}]_vars

\* C26 (concurrent Advance): when two Advance requests of the creator are in flight
\* on an active queue, the one that runs its try block while the other waits for
\* the lock is answered QueueEmpty on a queue without members and otherwise takes
\* exactly the member at position 1, leaving the members of positions 2.. at
\* positions 1.. for the call that waits.
C26_ConcurrentAdvance ==
    [][\A h1, h2 \in Handlers :
        ( /\ h1 # h2
          /\ hs[h1].op = "next" /\ hs[h2].op = "next"
          /\ hs[h2].pc = "wait" /\ hs[h2].qid = hs[h1].qid
          /\ BodyStep(h1)
          /\ PreOf(hs[h1].qid, hs[h1].user).visible
          /\ PreOf(hs[h1].qid, hs[h1].user).creator )
        => LET q == hs[h1].qid
               M == Len(members[q]) IN
           IF M = 0
           THEN hs'[h1].out = "QueueEmpty" /\ members' = members
           ELSE /\ hs'[h1].out = "Called"
                /\ {members'[q][j].user_id : j \in DOMAIN members'[q]}
                     = {members[q][i].user_id :
                            i \in {k \in DOMAIN members[q] : members[q][k].position >= 2}}
                /\ Positions(members', q) = 1..(M - 1)]_vars

\* C27 (Status is one snapshot): a Status request of a member of an active queue is
\* answered with the member's position p and the count N of the queue, 1 <= p <= N.
C27_StatusSnapshot ==
    \A h \in Handlers :
        ( /\ hs[h].op = "status" /\ Sending(h)
          /\ hs[h].pre.visible /\ hs[h].pre.member )
        => /\ hs[h].out = "Status"
           /\ 1 <= hs[h].pos /\ hs[h].pos <= hs[h].total

\* C28 (one lock per id, for good): the lock objects that exist are exactly the
\* entries of the lock table, one per id that has an entry; every handler that was
\* given a lock holds the entry of its queue id; and no step removes an entry or
\* puts another lock in its place.
C28_LockCreatedOnce ==
    [][/\ DOMAIN lock_owner = {queue_locks[q] : q \in {x \in QueueIds : queue_locks[x] # None}}
       /\ \A q1, q2 \in QueueIds :
            (queue_locks[q1] # None /\ queue_locks[q1] = queue_locks[q2]) => q1 = q2
       /\ \A h \in Handlers : hs[h].lock # None => hs[h].lock = queue_locks[hs[h].qid]
       /\ \A q \in QueueIds : queue_locks[q] # None => queue_locks'[q] = queue_locks[q]]_vars

\* A handler that sends its answer inside the block of a queue id and another one
\* that asked later for the lock of the same id: both were given the table's entry.
C28_Witness ==
    \E h1, h2 \in Handlers :
        /\ h1 # h2
        /\ hs[h1].pc = "reply" /\ hs[h2].pc = "wait"
        /\ hs[h1].qid = hs[h2].qid
        /\ hs[h1].lock # None /\ hs[h1].lock = hs[h2].lock
        /\ queue_locks[hs[h1].qid] = hs[h1].lock

\* C29 (keys of the lock table): every id that has an entry in the lock table is
\* the id of a queue the store created (ids are given from 1 up to the sequence),
\* so the table has at most as many entries as queues were ever created.
C29_LockKeysAreQueueIds ==
    /\ \A q \in QueueIds : queue_locks[q] # None => q <= seq
    /\ Cardinality({q \in QueueIds : queue_locks[q] # None}) <= seq

\* C30 (visibility and sweep are complements): at every instant each stored queue
\* is either returned by get_queue or deleted by cleanup_expired_queues run at that
\* instant, never both and never neither.
C30_VisibleXorSwept ==
    \A row \in queues :
        (get_queue(queues, now, row.id).kind = "value")
            # (row \notin cleanup_expired_queues(queues, now))

\* C31 (frame of the membership operations): a step that changes member rows
\* changes the rows of one queue id only and leaves the queues table as it is; and
\* in every step a queue row that is still stored has the name, creator_id,
\* created_at and expires_at it had.
C31_Frame ==
    [][/\ members' # members =>
            /\ queues' = queues
            /\ Cardinality({q \in QueueIds : members'[q] # members[q]}) = 1
       /\ \A r \in queues, r2 \in queues' : r.id = r2.id => r = r2]_vars

\* Two stored queues, each with member rows of its own: the calls on the one left
\* the rows and positions of the other, and both queue rows, as they were.
C31_Witness ==
    /\ {row.id : row \in queues} = {1, 2}
    /\ members[1] = <<[user_id |-> 30, position |-> 1]>>
    /\ members[2] = <<[user_id |-> 20, position |-> 1], [user_id |-> 10, position |-> 2]>>

\* ------------------------------------------------------- the event loop runs
\* A step of an update task that has asked, or is about to ask, for a queue's
\* lock: every await of the handler returns (or raises) and the event loop resumes
\* every task that is ready.
HandlerStep(h) ==
    \/ JoinGetUser(h)
    \/ Acquire(h)
    \/ JoinBody(h)
    \/ NextBody(h)
    \/ LeaveBody(h)
    \/ DeleteQueueBody(h)
    \/ RemoveUserBody(h)
    \/ StoreRaises(h)
    \/ Reply(h)
    \/ ExceptReply(h)

\* The updates that take a queue's lock, arriving at any time, and the clock.
LockNext ==
    \/ Tick
    \/ \E h \in Handlers :
        \/ BeginJoin(h)
        \/ BeginNext(h)
        \/ BeginLeave(h)
        \/ BeginDeleteQueue(h)
        \/ BeginRemoveUser(h)
        \/ HandlerStep(h)

\* The handlers that take a lock, on a database file that holds a queue and member
\* rows, with every started update task scheduled.
FairSpec ==
    PopulatedInit /\ [][LockNext]_vars /\ \A h \in Handlers : WF_vars(HandlerStep(h))

\* C32 (no deadlock, lock progress): a handler owns at most one lock and never
\* waits for a lock it owns, and every handler that was given a queue's lock,
\* waiting for it or inside its block, comes to its end with the lock released.
C32_LockProgress ==
    /\ [](\A h \in Handlers :
            /\ Cardinality({o \in DOMAIN lock_owner : lock_owner[o] = h}) <= 1
            /\ hs[h].pc = "wait" => lock_owner[hs[h].lock] # h)
    /\ \A h \in Handlers :
        (hs[h].lock # None)
            ~> (hs[h].pc = "done" /\ \A o \in DOMAIN lock_owner : lock_owner[o] # h)

\* A handler waits for the lock of a queue while its owner sends the answer of its
\* except clause.
C32_Witness ==
    \E h1, h2 \in Handlers :
        /\ hs[h2].pc = "wait"
        /\ lock_owner[hs[h2].lock] = h1
        /\ hs[h1].pc = "except_reply"

\* C33 (members are registered users): every member row names a user of the users
\* table; no step removes a users row; a Join whose sender has no users row when
\* get_user is read is answered "not registered" without asking for a lock and
\* without a change of the member rows, so that every Join past that point is one
\* of a registered user.
C33_MembersRegistered ==
    [][/\ \A q \in QueueIds : \A i \in DOMAIN members[q] : members[q][i].user_id \in users
       /\ users \subseteq users'
       /\ \A h \in Handlers :
            /\ ( /\ hs[h].pc = "get_user" /\ hs[h].user \notin users
                 /\ hs'[h] # hs[h] )
               => /\ hs'[h].out = "NotRegistered"
                  /\ hs'[h].lock = None
                  /\ members' = members
            /\ (hs[h].op = "join" /\ hs[h].pc \in {"wait", "body"})
               => hs[h].user \in users]_vars

\* A Join is being answered "not registered" while one of the two senders has a
\* users row and the other has none.
C33_Witness ==
    \E h \in Handlers :
        /\ hs[h].op = "join" /\ hs[h].pc = "reply" /\ hs[h].out = "NotRegistered"
        /\ users # {} /\ users # Senders

\* C34 (leave of a non-member): remove_from_queue called for a (queue, user) pair
\* that has no member row ends with NotFound and leaves every member row as it is.
C34_LeaveNotFound ==
    \A q \in QueueIds, u \in Users :
        MemberRows(members, q, u) = {}
        => /\ remove_from_queue(members, q, u).exc = "NotFound"
           /\ remove_from_queue(members, q, u).members = members

====
